---- MODULE Spec2Model ----
(***************************************************************************)
(* Model of sync-rules.py: the rule set loader (get_rule_files), the       *)
(* project discoverer (find_projects), the sync engine                     *)
(* (sync_rules_to_project) and the run orchestrator (main).                *)
(*                                                                         *)
(* The file system is part of the state.  A file's content is a sequence   *)
(* of bytes; read_text decodes it (UTF-8, universal newlines), so two      *)
(* different byte contents can compare equal as text and a content can     *)
(* fail to decode.  I/O failures are decided by the file-system state: a   *)
(* write-protected project tree, a .claude that is a regular file, a       *)
(* project path that is a regular file, an undecodable file.               *)
(***************************************************************************)
EXTENDS Integers, Sequences, FiniteSets, TLC

VARIABLES
    fs,           \* the file system: rule source directory and parent-directory entries
    pc,           \* position of main: idle, validate, load, resolve, project, file, returned, exited
    args,         \* parsed command line: [project, all, dry_run]
    rule_files,   \* main's rule_files (sorted sequence of rule file names)
    projects,     \* main's projects (sequence of project names)
    pi,           \* index of the project of the for loop at line 221
    ri,           \* index of the rule file of the for loop at line 107
    stats,        \* sync_rules_to_project's stats dict
    total_stats,  \* main's total_stats dict
    exit_code,    \* process exit status, "none" while running
    runs,         \* number of times the program has been started
    fs0,          \* history: the file system when the current run started
    entry_fs,     \* history: the file system when sync_rules_to_project was entered
    h_step,       \* history: the last loop iteration (rule file, destination before, stats before)
    h_done,       \* history: the <<project, rule file>> pairs processed in the current run
    prev          \* history: per project, the last completed sync_rules_to_project call

vars == <<fs, pc, args, rule_files, projects, pi, ri, stats, total_stats,
          exit_code, runs, fs0, entry_fs, h_step, h_done, prev>>

(***************************************************************************)
(* Bounds                                                                  *)
(***************************************************************************)
\* how many times the program is started, one run after the other
MaxRuns == 2

(***************************************************************************)
(* Names.  A name is a sequence of characters, so that startswith("."),    *)
(* the "*.md" pattern and sorted() are computed on it.                     *)
(***************************************************************************)
Ord(c) ==
    CASE c = "." -> 46
      [] c = "a" -> 97
      [] c = "b" -> 98
      [] c = "d" -> 100
      [] c = "f" -> 102
      [] c = "h" -> 104
      [] c = "m" -> 109
      [] c = "n" -> 110
      [] c = "p" -> 112
      [] c = "q" -> 113
      [] c = "t" -> 116
      [] c = "u" -> 117
      [] c = "x" -> 120

\* str.__lt__: lexicographic by code point, a proper prefix is smaller
RECURSIVE NameLess(_, _)
NameLess(a, b) ==
    IF a = <<>> THEN b # <<>>
    ELSE IF b = <<>> THEN FALSE
    ELSE IF Head(a) # Head(b) THEN Ord(Head(a)) < Ord(Head(b))
    ELSE NameLess(Tail(a), Tail(b))

\* sorted(): the ascending sequence of the elements of a set of names
RECURSIVE sorted(_)
sorted(S) ==
    IF S = {} THEN <<>>
    ELSE LET m == CHOOSE x \in S : \A y \in S \ {x} : NameLess(x, y)
         IN  <<m>> \o sorted(S \ {m})

\* name.startswith(".")
StartsWithDot(name) == Len(name) >= 1 /\ name[1] = "."

\* the glob pattern "*.md"
MatchesMd(name) ==
    /\ Len(name) >= 3
    /\ SubSeq(name, Len(name) - 2, Len(name)) = <<".", "m", "d">>

RuleA == <<"a", ".", "m", "d">>
RuleB == <<"b", ".", "m", "d">>
DirMd == <<"d", ".", "m", "d">>
NoteTxt == <<"n", ".", "t", "x", "t">>
SrcNames == {RuleA, RuleB, DirMd, NoteTxt}
DestNames == {RuleA, RuleB}

ProjP == <<"p">>
ProjQ == <<"q">>
Hidden == <<".", "h">>
PlainFile == <<"f">>
\* the name of the rule source directory in its parent directory
UNIVERSAL_RULES_DIR == <<"u">>
ParentNames == {ProjP, ProjQ, Hidden, PlainFile, UNIVERSAL_RULES_DIR}

(***************************************************************************)
(* File contents.  Bytes are named "x", "y", "LF", "CR" and "FF" (0xFF,    *)
(* which no UTF-8 text contains).                                          *)
(***************************************************************************)
TextX == <<"x", "LF">>
TextXCrLf == <<"x", "CR", "LF">>
TextY == <<"y">>
BadUtf8 == <<"FF">>

\* universal newlines of open(newline=None): "\r\n" and "\r" become "\n"
RECURSIVE TranslateNewlines(_)
TranslateNewlines(b) ==
    IF b = <<>> THEN <<>>
    ELSE IF Head(b) = "CR"
         THEN IF Len(b) >= 2 /\ b[2] = "LF"
              THEN <<"LF">> \o TranslateNewlines(Tail(Tail(b)))
              ELSE <<"LF">> \o TranslateNewlines(Tail(b))
         ELSE <<Head(b)>> \o TranslateNewlines(Tail(b))

\* Path.read_text(encoding="utf-8") of a regular file holding bytes b:
\* the decoded text, or raised (UnicodeDecodeError)
read_text(b) ==
    IF \E i \in DOMAIN b : b[i] = "FF"
    THEN [raised |-> TRUE, text |-> <<>>]
    ELSE [raised |-> FALSE, text |-> TranslateNewlines(b)]

(***************************************************************************)
(* The file system.                                                        *)
(*   fs.src[name]   an entry of the rule source directory:                 *)
(*                  [kind: "absent" | "file" | "dir", data: bytes]         *)
(*   fs.proj[name]  an entry of the parent directory:                      *)
(*                  [kind: "absent" | "file" | "dir",                      *)
(*                   ro: the tree is write-protected,                      *)
(*                   claude: "absent" | "file" | "dir"  (its .claude),     *)
(*                   files: name -> [exists, data], the file .claude/name] *)
(***************************************************************************)
\* a destination path in .claude: no file there, or a regular file holding bytes
NoFile == [exists |-> FALSE, data |-> <<>>]
DestFile(b) == [exists |-> TRUE, data |-> b]
NoFiles == [n \in DestNames |-> NoFile]
Missing == [kind |-> "absent", ro |-> FALSE, claude |-> "absent", files |-> NoFiles]
RegularFile == [kind |-> "file", ro |-> FALSE, claude |-> "absent", files |-> NoFiles]

SrcFile(b) == [kind |-> "file", data |-> b]
SrcAbsent == [kind |-> "absent", data |-> <<>>]
SrcDir == [kind |-> "dir", data |-> <<>>]

\* the states the rule source directory starts in
SrcStates ==
    { [n \in SrcNames |->
          IF n = RuleA THEN a
          ELSE IF n = RuleB THEN b
          ELSE IF n = DirMd THEN SrcDir
          ELSE SrcFile(TextY)] :
      a \in {SrcAbsent, SrcFile(TextX), SrcFile(BadUtf8)},
      b \in {SrcAbsent, SrcFile(TextY)} }

\* the states project p starts in
ProjPStates ==
    {Missing, RegularFile}
    \cup { [kind |-> "dir", ro |-> r, claude |-> c, files |-> NoFiles] :
           r \in BOOLEAN, c \in {"absent", "file"} }
    \cup { [kind |-> "dir", ro |-> r, claude |-> "dir",
            files |-> [n \in DestNames |-> IF n = RuleA THEN a ELSE b]] :
           r \in BOOLEAN,
           a \in {NoFile, DestFile(TextX), DestFile(TextXCrLf), DestFile(TextY),
                   DestFile(BadUtf8)},
           b \in {NoFile, DestFile(TextX), DestFile(TextY)} }

\* the states project q starts in
ProjQStates ==
    { [kind |-> "dir", ro |-> FALSE, claude |-> c, files |-> NoFiles] :
      c \in {"absent", "dir"} }

ClaudeDirOnly == [kind |-> "dir", ro |-> FALSE, claude |-> "dir", files |-> NoFiles]

ParentStates ==
    { [n \in ParentNames |->
          IF n = ProjP THEN p
          ELSE IF n = ProjQ THEN q
          ELSE IF n = PlainFile THEN RegularFile
          ELSE ClaudeDirOnly] :
      p \in ProjPStates, q \in ProjQStates }

(***************************************************************************)
(* get_rule_files                                                          *)
(***************************************************************************)
get_rule_files(f) ==
    sorted({ n \in SrcNames :
               /\ f.src[n].kind # "absent"
               /\ MatchesMd(n)
               /\ f.src[n].kind = "file" })

(***************************************************************************)
(* find_projects                                                           *)
(***************************************************************************)
\* find_projects testing claude_dir.exists() alone, without is_dir()
find_projects_ExistsOnly(f) ==
    sorted({ item \in ParentNames :
               /\ f.proj[item].kind = "dir"
               /\ ~StartsWithDot(item)
               /\ item # UNIVERSAL_RULES_DIR
               /\ f.proj[item].claude # "absent" })

find_projects(f) ==
    sorted({ item \in ParentNames :
               /\ f.proj[item].kind = "dir"
               /\ ~StartsWithDot(item)
               /\ item # UNIVERSAL_RULES_DIR
               /\ f.proj[item].claude = "dir" })

(***************************************************************************)
(* sync_rules_to_project                                                   *)
(***************************************************************************)
ZeroStats(name) ==
    [project |-> name, copied |-> 0, updated |-> 0, skipped |-> 0, errors |-> 0]

Inc(s, key) == [s EXCEPT ![key] = @ + 1]

\* claude_dir.exists(): Path.exists() answers False when the project path is
\* missing or is not a directory
ClaudeExists(f, p) == f.proj[p].kind = "dir" /\ f.proj[p].claude # "absent"

\* claude_dir.mkdir(parents=True, exist_ok=True) when claude_dir does not exist:
\* raises when a path segment is a regular file or the tree is write-protected,
\* creates the missing project directory and its .claude otherwise
mkdir(f, p) ==
    IF f.proj[p].kind = "file" \/ f.proj[p].ro
    THEN [raised |-> TRUE, fs |-> f]
    ELSE [raised |-> FALSE,
          fs |-> [f EXCEPT !.proj[p].kind = "dir", !.proj[p].claude = "dir"]]

\* lines 92-97: the configuration directory is created when it does not exist
EnsureClaudeDir(f, p) ==
    IF ~ClaudeExists(f, p) THEN mkdir(f, p) ELSE [raised |-> FALSE, fs |-> f]

\* target_file.exists()
TargetExists(f, p, n) ==
    /\ f.proj[p].kind = "dir"
    /\ f.proj[p].claude = "dir"
    /\ f.proj[p].files[n].exists

\* a file can be written into project p's .claude
Writable(f, p) == f.proj[p].claude = "dir" /\ ~f.proj[p].ro

\* a copy that opens the destination for writing and writes nothing
copy2_Truncates(f, p, n) ==
    IF f.proj[p].claude # "dir" \/ f.proj[p].ro
    THEN [raised |-> TRUE, fs |-> f]
    ELSE [raised |-> FALSE, fs |-> [f EXCEPT !.proj[p].files[n] = DestFile(<<>>)]]

\* shutil.move in the place of shutil.copy2: the rule file leaves the source directory
copy2_Move(f, p, n) ==
    IF f.proj[p].claude # "dir" \/ f.proj[p].ro
    THEN [raised |-> TRUE, fs |-> f]
    ELSE [raised |-> FALSE,
          fs |-> [f EXCEPT !.proj[p].files[n] = DestFile(f.src[n].data),
                           !.src[n] = SrcAbsent]]

\* shutil.copy2(rule_file, target_file): raises when .claude is not a directory
\* or the tree is write-protected, else the destination holds the source's bytes
copy2(f, p, n) ==
    IF f.proj[p].claude # "dir" \/ f.proj[p].ro
    THEN [raised |-> TRUE, fs |-> f]
    ELSE [raised |-> FALSE, fs |-> [f EXCEPT !.proj[p].files[n] = DestFile(f.src[n].data)]]

\* the except clause not counting the failure
WriteStep_Swallow(f, p, n, dry, s) ==
    IF dry THEN [fs |-> f, stats |-> s]
    ELSE LET w == copy2(f, p, n)
         IN  IF w.raised THEN [fs |-> f, stats |-> s]
             ELSE [fs |-> w.fs, stats |-> s]

\* lines 128-137: the write of a COPY or UPDATE decision, s the stats already
\* holding the decision's increment
WriteStep(f, p, n, dry, s) ==
    IF dry THEN [fs |-> f, stats |-> s]
    ELSE LET w == copy2(f, p, n)
         IN  IF w.raised THEN [fs |-> f, stats |-> Inc(s, "errors")]
             ELSE [fs |-> w.fs, stats |-> s]

\* the comparison made on the bytes instead of the decoded text
ProcessRuleFile_ByteCompare(f, p, n, dry, s) ==
    IF TargetExists(f, p, n)
    THEN IF f.src[n].data = f.proj[p].files[n].data
         THEN [fs |-> f, stats |-> Inc(s, "skipped")]
         ELSE WriteStep(f, p, n, dry, Inc(s, "updated"))
    ELSE WriteStep(f, p, n, dry, Inc(s, "copied"))

\* a dry run that reports every rule file as copied without looking at the destination
ProcessRuleFile_DryShortcut(f, p, n, dry, s) ==
    IF dry THEN [fs |-> f, stats |-> Inc(s, "copied")]
    ELSE IF TargetExists(f, p, n)
    THEN LET source == read_text(f.src[n].data)
             target == read_text(f.proj[p].files[n].data)
         IN  IF source.raised \/ target.raised
             THEN [fs |-> f, stats |-> Inc(s, "errors")]
             ELSE IF source.text = target.text
                  THEN [fs |-> f, stats |-> Inc(s, "skipped")]
                  ELSE WriteStep(f, p, n, dry, Inc(s, "updated"))
    ELSE WriteStep(f, p, n, dry, Inc(s, "copied"))

\* lines 108-137: one iteration of the loop over rule_files
ProcessRuleFile(f, p, n, dry, s) ==
    IF TargetExists(f, p, n)
    THEN LET source == read_text(f.src[n].data)
             target == read_text(f.proj[p].files[n].data)
         IN  IF source.raised \/ target.raised
             THEN [fs |-> f, stats |-> Inc(s, "errors")]
             ELSE IF source.text = target.text
                  THEN [fs |-> f, stats |-> Inc(s, "skipped")]
                  ELSE WriteStep(f, p, n, dry, Inc(s, "updated"))
    ELSE WriteStep(f, p, n, dry, Inc(s, "copied"))

\* lines 107-137: the loop from rule file i on
RECURSIVE SyncLoop(_, _, _, _, _, _)
SyncLoop(f, p, rules, dry, s, i) ==
    IF i > Len(rules) THEN [fs |-> f, stats |-> s]
    ELSE LET r == ProcessRuleFile(f, p, rules[i], dry, s)
         IN  SyncLoop(r.fs, p, rules, dry, r.stats, i + 1)

\* the whole call: raised (the mkdir exception leaves the function), or the
\* file system it leaves and the stats it returns
sync_rules_to_project(f, p, rules, dry) ==
    LET m == EnsureClaudeDir(f, p)
    IN  IF m.raised THEN [raised |-> TRUE, fs |-> f, stats |-> ZeroStats(p)]
        ELSE LET r == SyncLoop(m.fs, p, rules, dry, ZeroStats(p), 1)
             IN  [raised |-> FALSE, fs |-> r.fs, stats |-> r.stats]

(***************************************************************************)
(* main                                                                    *)
(***************************************************************************)
ZeroTotals == [copied |-> 0, updated |-> 0, skipped |-> 0, errors |-> 0]
NoStep == [name |-> <<>>, pre |-> NoFile, stats0 |-> ZeroStats(<<>>)]
NoCall == [done |-> FALSE, dry_run |-> FALSE, stats |-> ZeroStats(<<>>)]

\* the command lines: --project p or none, --all or not, --dry-run or not
\* args.project when --project is not given (None)
None == <<>>
ArgSets == [project : {None, ProjP}, all : BOOLEAN, dry_run : BOOLEAN]

Init ==
    /\ fs \in [src : SrcStates, proj : ParentStates]
    /\ pc = "idle"
    /\ args = [project |-> None, all |-> FALSE, dry_run |-> FALSE]
    /\ rule_files = <<>>
    /\ projects = <<>>
    /\ pi = 0
    /\ ri = 0
    /\ stats = ZeroStats(<<>>)
    /\ total_stats = ZeroTotals
    /\ exit_code = "none"
    /\ runs = 0
    /\ fs0 = fs
    /\ entry_fs = fs
    /\ h_step = NoStep
    /\ h_done = {}
    /\ prev = [p \in ParentNames |-> NoCall]

\* the program is started: parser.parse_args() (line 170)
Invoke ==
    /\ pc \in {"idle", "exited"}
    /\ runs < MaxRuns
    /\ \E a \in ArgSets : args' = a
    /\ pc' = "validate"
    /\ runs' = runs + 1
    /\ rule_files' = <<>>
    /\ projects' = <<>>
    /\ pi' = 0
    /\ ri' = 0
    /\ stats' = ZeroStats(<<>>)
    /\ total_stats' = ZeroTotals
    /\ exit_code' = "none"
    /\ fs0' = fs
    /\ entry_fs' = fs
    /\ h_step' = NoStep
    /\ h_done' = {}
    /\ UNCHANGED <<fs, prev>>

\* lines 172-176
Validate ==
    /\ pc = "validate"
    /\ IF args.project = None /\ ~args.all
       THEN pc' = "exited" /\ exit_code' = 1
       ELSE pc' = "load" /\ UNCHANGED exit_code
    /\ UNCHANGED <<fs, args, rule_files, projects, pi, ri, stats, total_stats,
                   runs, fs0, entry_fs, h_step, h_done, prev>>

\* lines 178-183
LoadRules ==
    /\ pc = "load"
    /\ rule_files' = get_rule_files(fs)
    /\ IF rule_files' = <<>>
       THEN pc' = "exited" /\ exit_code' = 1
       ELSE pc' = "resolve" /\ UNCHANGED exit_code
    /\ UNCHANGED <<fs, args, projects, pi, ri, stats, total_stats,
                   runs, fs0, entry_fs, h_step, h_done, prev>>

\* lines 198-219
ResolveTargets ==
    /\ pc = "resolve"
    /\ projects' = IF args.project # None THEN <<args.project>>
                   ELSE find_projects(fs)
    /\ IF projects' = <<>>
       THEN pc' = "exited" /\ exit_code' = 0 /\ UNCHANGED pi
       ELSE pc' = "project" /\ pi' = 1 /\ UNCHANGED exit_code
    /\ total_stats' = ZeroTotals
    /\ UNCHANGED <<fs, args, rule_files, ri, stats, runs, fs0, entry_fs,
                   h_step, h_done, prev>>

\* lines 221-229 and 92-105: the call of sync_rules_to_project for the next
\* project, up to the loop over the rule files.  An exception of mkdir is caught
\* nowhere: the interpreter prints the traceback and exits with status 1.
EnterProject ==
    /\ pc = "project"
    /\ pi <= Len(projects)
    /\ LET m == EnsureClaudeDir(fs, projects[pi])
       IN  IF m.raised
           THEN /\ pc' = "exited"
                /\ exit_code' = 1
                /\ UNCHANGED <<fs, stats, ri>>
           ELSE /\ pc' = "file"
                /\ fs' = m.fs
                /\ stats' = ZeroStats(projects[pi])
                /\ ri' = 1
                /\ UNCHANGED exit_code
    /\ entry_fs' = fs
    /\ h_step' = NoStep
    /\ UNCHANGED <<args, rule_files, projects, pi, total_stats, runs, fs0, h_done, prev>>

\* lines 107-137: one rule file
SyncRuleFile ==
    /\ pc = "file"
    /\ ri <= Len(rule_files)
    /\ LET p == projects[pi]
           n == rule_files[ri]
           r == ProcessRuleFile(fs, p, n, args.dry_run, stats)
       IN  /\ fs' = r.fs
           /\ stats' = r.stats
           /\ h_step' = [name |-> n,
                         pre |-> IF TargetExists(fs, p, n)
                                 THEN fs.proj[p].files[n] ELSE NoFile,
                         stats0 |-> stats]
           /\ h_done' = h_done \cup {<<p, n>>}
    /\ ri' = ri + 1
    /\ UNCHANGED <<pc, args, rule_files, projects, pi, total_stats, exit_code,
                   runs, fs0, entry_fs, prev>>

\* line 139: return stats
ReturnStats ==
    /\ pc = "file"
    /\ ri > Len(rule_files)
    /\ pc' = "returned"
    /\ UNCHANGED <<fs, args, rule_files, projects, pi, ri, stats, total_stats,
                   exit_code, runs, fs0, entry_fs, h_step, h_done, prev>>

\* lines 231-252: the totals are accumulated, the next project follows
Accumulate ==
    /\ pc = "returned"
    /\ total_stats' = [k \in DOMAIN total_stats |-> total_stats[k] + stats[k]]
    /\ prev' = [prev EXCEPT ![projects[pi]] =
                   [done |-> TRUE, dry_run |-> args.dry_run, stats |-> stats]]
    /\ pi' = pi + 1
    /\ pc' = "project"
    /\ UNCHANGED <<fs, args, rule_files, projects, ri, stats, exit_code, runs,
                   fs0, entry_fs, h_step, h_done>>

\* lines 254-277: the summary; main returns and the process exits with status 0
Finish ==
    /\ pc = "project"
    /\ pi > Len(projects)
    /\ pc' = "exited"
    /\ exit_code' = 0
    /\ UNCHANGED <<fs, args, rule_files, projects, pi, ri, stats, total_stats,
                   runs, fs0, entry_fs, h_step, h_done, prev>>

\* between two runs somebody else edits or removes a file of a project's .claude
\* (the external modification the idempotence property excludes); the history of
\* the project's last call no longer describes its files
ExternalEdit ==
    /\ pc = "exited"
    /\ runs < MaxRuns
    /\ \E n \in DestNames, d \in {NoFile, DestFile(TextY)} :
          /\ Writable(fs, ProjP)
          /\ fs.proj[ProjP].files[n] # d
          /\ fs' = [fs EXCEPT !.proj[ProjP].files[n] = d]
    /\ prev' = [prev EXCEPT ![ProjP] = NoCall]
    /\ pc' = "idle"
    /\ exit_code' = "none"
    /\ fs0' = fs'
    /\ entry_fs' = fs'
    /\ rule_files' = <<>>
    /\ projects' = <<>>
    /\ pi' = 0
    /\ ri' = 0
    /\ stats' = ZeroStats(<<>>)
    /\ total_stats' = ZeroTotals
    /\ h_step' = NoStep
    /\ h_done' = {}
    /\ UNCHANGED <<args, runs>>

Next ==
    \/ Invoke
    \/ Validate
    \/ LoadRules
    \/ ResolveTargets
    \/ EnterProject
    \/ SyncRuleFile
    \/ ReturnStats
    \/ Accumulate
    \/ Finish
    \/ ExternalEdit

Spec == Init /\ [][Next]_vars

(***************************************************************************)
(* Properties                                                              *)
(***************************************************************************)
Sum(s) == s.copied + s.updated + s.skipped + s.errors
Counts(s) == <<s.copied, s.updated, s.skipped, s.errors>>

\* a call of sync_rules_to_project is in its loop or has just returned
InCall == pc \in {"file", "returned"}
\* a loop iteration of the current call has been made
Stepped == InCall /\ h_step.name # <<>>
\* the destination of rule file n in project p, as target_file.exists() sees it
Dest(f, p, n) == IF TargetExists(f, p, n) THEN f.proj[p].files[n] ELSE NoFile
\* two contents are the same text: the same bytes, or both decode to the same text
SameText(a, b) ==
    \/ a = b
    \/ /\ ~read_text(a).raised
       /\ ~read_text(b).raised
       /\ read_text(a).text = read_text(b).text
\* the run got past the resolution of the target projects
Resolved ==
    /\ pc \in {"project", "file", "returned", "exited"}
    /\ (args.project # None \/ args.all)
    /\ rule_files # <<>>

\* C1: every loop iteration increments exactly one of copied, updated, skipped,
\* errors by one (also when the read, the compare or the write fails), so the
\* four counters add up to the number of rule files when the call returns.
C1_ExactlyOneCounter ==
    /\ Stepped => Sum(stats) = Sum(h_step.stats0) + 1
    /\ pc = "returned" => Sum(stats) = Len(rule_files)

\* C2: with dry_run set a run never changes the file system: no rule file is
\* written and no missing .claude directory is created.
C2_DryRunNeverMutates ==
    (pc # "idle" /\ args.dry_run) => fs = fs0

C4_FailuresIsolated ==
    (pc = "exited" /\ Resolved /\ projects # <<>>)
    => /\ h_done = { <<projects[i], rule_files[j]>> :
                       i \in DOMAIN projects, j \in DOMAIN rule_files }
       /\ pi = Len(projects) + 1

\* C5 as claimed: the call returns the counts the call with the other value of
\* dry_run returns from the same starting state.
C5_DryRunSameCounts_Original ==
    pc = "returned" =>
        LET other == sync_rules_to_project(entry_fs, projects[pi], rule_files,
                                           ~args.dry_run)
        IN  ~other.raised /\ Counts(other.stats) = Counts(stats)

\* C5 as amended: from the same starting state the dry and the non-dry call
\* return the same copied, updated and skipped; errors of the non-dry call is
\* errors of the dry call plus the number of its shutil.copy2 writes that fail,
\* so the two are equal when no write fails.
C5_DryRunSameCounts ==
    pc = "returned" =>
        LET p == projects[pi]
            other == sync_rules_to_project(entry_fs, p, rule_files, ~args.dry_run)
            dry == IF args.dry_run THEN stats ELSE other.stats
            real == IF args.dry_run THEN other.stats ELSE stats
            failed == IF Writable(fs, p) THEN 0 ELSE real.copied + real.updated
        IN  /\ ~other.raised
            /\ dry.copied = real.copied
            /\ dry.updated = real.updated
            /\ dry.skipped = real.skipped
            /\ real.errors = dry.errors + failed

C5_Witness ==
    /\ pc = "returned"
    /\ args.dry_run
    /\ Writable(fs, projects[pi])
    /\ Counts(stats) = <<1, 1, 0, 0>>
    /\ Counts(sync_rules_to_project(entry_fs, projects[pi], rule_files, FALSE).stats)
           = <<1, 1, 0, 0>>

\* C6: the decision table of one rule file when no I/O failure is met.
\* Destination absent: copied, and the destination holds the source's content
\* unless dry_run.  Destination present with the source's text: skipped, and the
\* destination is not written.  Destination present with another text: updated,
\* and the destination holds the source's content unless dry_run.  The contents
\* are compared as decoded text.  Source a.md, b.md and a target holding only an
\* equal a.md give copied=1, updated=0, skipped=1, errors=0.
C6_DecisionTable ==
    /\ Stepped =>
        LET p == projects[pi]
            n == h_step.name
            pre == h_step.pre
            post == Dest(fs, p, n)
            src == fs.src[n].data
            dry == args.dry_run
            readsOk == ~read_text(src).raised /\ ~read_text(pre.data).raised
            sameText == read_text(src).text = read_text(pre.data).text
            writeOk == dry \/ Writable(fs, p)
            written == IF dry THEN post = pre ELSE post = DestFile(src)
        IN  /\ (~pre.exists /\ writeOk)
                => stats = Inc(h_step.stats0, "copied") /\ written
            /\ (pre.exists /\ readsOk /\ sameText)
                => stats = Inc(h_step.stats0, "skipped") /\ post = pre
            /\ (pre.exists /\ readsOk /\ ~sameText /\ writeOk)
                => stats = Inc(h_step.stats0, "updated") /\ written
    /\ ( /\ pc = "returned"
         /\ rule_files = <<RuleA, RuleB>>
         /\ Writable(entry_fs, projects[pi])
         /\ entry_fs.proj[projects[pi]].files[RuleA] = DestFile(fs.src[RuleA].data)
         /\ ~read_text(fs.src[RuleA].data).raised
         /\ ~entry_fs.proj[projects[pi]].files[RuleB].exists )
       => Counts(stats) = <<1, 0, 1, 0>>

C6_Witness ==
    /\ pc = "returned"
    /\ ~args.dry_run
    /\ rule_files = <<RuleA, RuleB>>
    /\ entry_fs.proj[projects[pi]].files[RuleA] = DestFile(TextXCrLf)
    /\ fs.src[RuleA].data = TextX
    /\ ~entry_fs.proj[projects[pi]].files[RuleB].exists
    /\ fs.proj[projects[pi]].files[RuleA] = DestFile(TextXCrLf)
    /\ fs.proj[projects[pi]].files[RuleB] = DestFile(TextY)
    /\ Counts(stats) = <<1, 0, 1, 0>>

\* the sequence is strictly ascending by name
Ascending(q) == \A i \in 1..(Len(q) - 1) : NameLess(q[i], q[i + 1])

\* C7: in --all mode the projects are, sorted by name, exactly the entries of
\* the parent directory that are directories, are not hidden, are not the rule
\* source directory and hold a .claude that is a directory; and no .claude is
\* created for an entry that had none.
C7_FindProjects ==
    /\ (Resolved /\ args.project = None)
        => /\ Ascending(projects)
           /\ { projects[i] : i \in DOMAIN projects }
                = { n \in ParentNames :
                      /\ fs0.proj[n].kind = "dir"
                      /\ n[1] # "."
                      /\ n # UNIVERSAL_RULES_DIR
                      /\ fs0.proj[n].claude = "dir" }
    /\ (pc # "idle" /\ args.project = None)
        => \A n \in ParentNames :
               fs0.proj[n].claude # "dir" => fs.proj[n] = fs0.proj[n]

C7_Witness ==
    /\ pc = "exited"
    /\ exit_code = 0
    /\ args.project = None
    /\ projects = <<ProjQ>>
    /\ fs0.proj[ProjP].kind = "dir"
    /\ fs0.proj[ProjP].claude = "file"
    /\ fs.proj[ProjP] = fs0.proj[ProjP]
    /\ fs.proj[ProjQ].files[RuleA].exists

\* C8: the exit status is 1 exactly when neither --project nor --all is given
\* or no rule file is found, and then no project was touched; every other run
\* exits 0.
C8_ExitStatus ==
    pc = "exited" =>
        LET fatal == \/ (args.project = None /\ ~args.all)
                     \/ get_rule_files(fs0) = <<>>
        IN  /\ exit_code \in {0, 1}
            /\ exit_code = 1 <=> fatal
            /\ fatal => fs = fs0

\* nothing is deleted: what existed when the run started still exists
NothingDeleted ==
    \A n \in ParentNames :
        /\ fs0.proj[n].kind # "absent" => fs.proj[n].kind = fs0.proj[n].kind
        /\ fs0.proj[n].claude # "absent" => fs.proj[n].claude = fs0.proj[n].claude
        /\ \A r \in DestNames :
               fs0.proj[n].files[r].exists => fs.proj[n].files[r].exists

\* the projects the run resolved
Targets == { projects[i] : i \in DOMAIN projects }

\* C9 as claimed: a run creates or changes only <project>/.claude and the files
\* in it, for the resolved projects, and deletes nothing.
C9_Frame_Original ==
    pc # "idle" =>
        /\ fs.src = fs0.src
        /\ \A n \in ParentNames :
               /\ fs.proj[n].kind = fs0.proj[n].kind
               /\ fs.proj[n].ro = fs0.proj[n].ro
               /\ n \notin Targets => fs.proj[n] = fs0.proj[n]
        /\ NothingDeleted

\* C9 as amended: a run creates or changes only <project>/.claude, the files in
\* it and, when the project directory itself is missing, that directory
\* (mkdir(parents=True) creates the missing ancestors of .claude), for the
\* resolved projects; the rule source is only read and nothing is deleted.
C9_Frame ==
    pc # "idle" =>
        /\ fs.src = fs0.src
        /\ \A n \in ParentNames :
               /\ \/ fs.proj[n].kind = fs0.proj[n].kind
                  \/ /\ n \in Targets
                     /\ fs0.proj[n].kind = "absent"
                     /\ fs.proj[n].kind = "dir"
               /\ fs.proj[n].ro = fs0.proj[n].ro
               /\ n \notin Targets => fs.proj[n] = fs0.proj[n]
        /\ NothingDeleted

C9_Witness ==
    /\ pc = "exited"
    /\ exit_code = 0
    /\ fs0.proj[ProjP] = Missing
    /\ fs.proj[ProjP].kind = "dir"
    /\ fs.proj[ProjP].claude = "dir"
    /\ fs.proj[ProjP].files[RuleA] = DestFile(fs.src[RuleA].data)
    /\ fs.proj[ProjQ] = fs0.proj[ProjQ]

\* C10: a non-dry call that returns errors=0 leaves, for every rule file, a
\* destination that exists and holds the text of the source rule file.
C10_Convergence ==
    (pc = "returned" /\ ~args.dry_run /\ stats.errors = 0)
    => \A i \in DOMAIN rule_files :
           /\ TargetExists(fs, projects[pi], rule_files[i])
           /\ SameText(fs.proj[projects[pi]].files[rule_files[i]].data,
                       fs.src[rule_files[i]].data)

C10_Witness ==
    /\ pc = "returned"
    /\ ~args.dry_run
    /\ stats.errors = 0
    /\ stats.copied = 1
    /\ stats.updated = 1
    /\ entry_fs.proj[projects[pi]].files[RuleA] = DestFile(TextY)
    /\ fs.proj[projects[pi]].files[RuleA] = DestFile(TextX)
    /\ fs.proj[projects[pi]].files[RuleB] = DestFile(TextY)

====
